---- MODULE Spec2Model ----
(***************************************************************************)
(* Model of src/demo.cpp: the string-addressable reflection facility       *)
(* (ObjectRegistry, Reflectable, MemberInfo, TypeTraits, Reflector and     *)
(* ReflectionParser) and the example classes Record and A.                 *)
(*                                                                         *)
(* A std::string is a sequence of one-character strings, so that find,     *)
(* substr, tokenize and the lexical conversions are computed character by  *)
(* character as the code computes them.                                    *)
(***************************************************************************)
EXTENDS Integers, Sequences, FiniteSets, TLC

VARIABLES objs, recs, objects, lastEvent, lastCall

vars == <<objs, recs, objects, lastEvent, lastCall>>

(***************************************************************************)
(* Bounds of the model.                                                    *)
(***************************************************************************)
\* number of storage locations in which the client may hold an A
MaxObjs == 2

\* number of those storage locations the command runs construct into
MaxCmdObjs == 1

\* number of storage locations in which the client may hold a Record that is
\* not the member d of an A
MaxRecs == 1

Slots == 1..MaxObjs

RecSlots == 1..MaxRecs

CmdSlots == 1..MaxCmdObjs

AllSlots == Slots \cup CmdSlots

(***************************************************************************)
(* String literals of the source.                                          *)
(***************************************************************************)
empty == <<>>
kw_get == <<"g","e","t">>
kw_set == <<"s","e","t">>
name_a == <<"a">>
name_b == <<"b">>
name_d == <<"d">>
record_1 == <<"r","e","c","o","r","d","_","1">>
default == <<"d","e","f","a","u","l","t">>
hello == <<"h","e","l","l","o">>
nonreflectable == <<"n","o","n","r","e","f","l","e","c","t","a","b","l","e">>
test_object == <<"t","e","s","t","_","o","b","j","e","c","t">>
invalid_object == <<"i","n","v","a","l","i","d","_","o","b","j","e","c","t">>
hello_world == <<"h","e","l","l","o","_","w","o","r","l","d">>

\* instances are referred to by their storage location, a positive number
nullptr == 0

\* the local Record r of TypeTraits<Record>::fromString
local_r == -1

\* the local A a of TypeTraits<A>::fromString and the value it returns; in
\* the registry of Record, the member d of that A
local_a == -2

\* the Record held in the storage location k of recs
RecRef(k) == 0 - (k + 2)

\* the storage location of recs that ref refers to
RecOf(ref) == (0 - ref) - 2
npos == 0

(***************************************************************************)
(* std::string operations used by the code (positions are 1-based here,    *)
(* npos is 0).                                                             *)
(***************************************************************************)
find(s, c) ==
    IF \E i \in 1..Len(s) : s[i] = c
    THEN CHOOSE i \in 1..Len(s) : s[i] = c /\ \A j \in 1..(i-1) : s[j] # c
    ELSE npos

\* s.substr(0, pos): the characters before position pos
substr_before(s, pos) == SubSeq(s, 1, pos - 1)

\* s.substr(pos + 1): the characters after position pos
substr_after(s, pos) == SubSeq(s, pos + 1, Len(s))

(***************************************************************************)
(* boost::lexical_cast<int> and the int-to-text conversions                *)
(* (boost::lexical_cast<std::string>(int), std::to_string(int)).           *)
(***************************************************************************)
INT_MAX == 2147483647
INT_MIN == (0 - INT_MAX) - 1

Digits == <<"0","1","2","3","4","5","6","7","8","9">>

IsDigit(c) == \E k \in 1..10 : Digits[k] = c

DigitVal(c) == (CHOOSE k \in 1..10 : Digits[k] = c) - 1

RECURSIVE DigitsValue(_)
DigitsValue(s) ==
    IF s = <<>> THEN 0
    ELSE 10 * DigitsValue(SubSeq(s, 1, Len(s) - 1)) + DigitVal(s[Len(s)])

\* [ok, val]: ok is FALSE where lexical_cast throws bad_lexical_cast
lexical_cast_int(s) ==
    LET signed == s # <<>> /\ s[1] \in {"+", "-"}
        body   == IF signed THEN Tail(s) ELSE s
        mag    == DigitsValue(body)
        val    == IF signed /\ s[1] = "-" THEN 0 - mag ELSE mag
    IN  IF body = <<>> \/ \E i \in 1..Len(body) : ~IsDigit(body[i])
        THEN [ok |-> FALSE, val |-> 0]
        ELSE IF val < INT_MIN \/ val > INT_MAX
        THEN [ok |-> FALSE, val |-> 0]
        ELSE [ok |-> TRUE, val |-> val]

RECURSIVE NatToString(_)
NatToString(n) ==
    IF n < 10 THEN <<Digits[n + 1]>>
    ELSE NatToString(n \div 10) \o <<Digits[(n % 10) + 1]>>

int_toString(v) == IF v < 0 THEN <<"-">> \o NatToString(0 - v) ELSE NatToString(v)

(***************************************************************************)
(* ObjectRegistry<T>: the static map objects, as a function whose domain   *)
(* is the set of keys present.                                             *)
(***************************************************************************)
\* a registerObject that keeps the entry an identifier already has
\* (objects.insert({id, obj}) in place of objects[id] = obj)
registerObject_keepsExisting(m, id, obj) ==
    [k \in (DOMAIN m) \cup {id} |-> IF k \in DOMAIN m THEN m[k] ELSE obj]

registerObject(m, id, obj) ==
    [k \in (DOMAIN m) \cup {id} |-> IF k = id THEN obj ELSE m[k]]

unregisterObject(m, id) == [k \in (DOMAIN m) \ {id} |-> m[k]]

getObject(m, id) == IF id \in DOMAIN m THEN m[id] ELSE nullptr

(***************************************************************************)
(* History of the registry calls, kept as the set of pairs <<id, obj>>     *)
(* such that the most recent call made with id is registerObject(id, obj). *)
(***************************************************************************)
noteRegister(h, id, obj) == {p \in h : p[1] # id} \cup {<<id, obj>>}

noteUnregister(h, id) == {p \in h : p[1] # id}

\* what the call history says a lookup of id must return
mostRecentRegistered(h, id) ==
    IF \E p \in h : p[1] = id THEN (CHOOSE p \in h : p[1] = id)[2] ELSE nullptr

(***************************************************************************)
(* The world: the instances and the registries.  A world w is a record     *)
(* [objs, objects, lastEvent]; the operators below are the steps of the    *)
(* code, applied in the order in which the code runs them.                 *)
(*   objs[s]            the A held in storage location s                   *)
(*   recs[k]            the Record held in storage location k              *)
(*   objects.A          ObjectRegistry<A>::objects, identifier -> s,       *)
(*                      local_a or nullptr                                 *)
(*   objects.Record     ObjectRegistry<Record>::objects, identifier -> s   *)
(*                      (the Record objs[s].d), RecRef(k) (the Record      *)
(*                      recs[k]), local_r, local_a or nullptr              *)
(***************************************************************************)
DeadRecord == [_object_id |-> empty, a |-> 0, b |-> empty]

\* a storage location of recs that holds no instance
DeadRec == [alive |-> FALSE, _object_id |-> empty, a |-> 0, b |-> empty]

\* a storage location that holds no instance
DeadA == [alive |-> FALSE, _object_id |-> empty, a |-> 0, d |-> DeadRecord,
          nonreflectable |-> empty]

doRegister(w, T, id, obj) ==
    [w EXCEPT !.objects[T] = registerObject(@, id, obj),
              !.lastEvent[T] = noteRegister(@, id, obj)]

doUnregister(w, T, id) ==
    [w EXCEPT !.objects[T] = unregisterObject(@, id),
              !.lastEvent[T] = noteUnregister(@, id)]

\* Reflectable<Derived>::_object_id of the instance this (a storage location s:
\* the A objs[s] for Derived = A, the Record objs[s].d for Derived = Record)
getObjectId(w, T, this) ==
    IF T = "A" THEN w.objs[this]._object_id
    ELSE IF this > 0 THEN w.objs[this].d._object_id
    ELSE w.recs[RecOf(this)]._object_id

setObjectId(w, T, this, id) ==
    IF T = "A" THEN [w EXCEPT !.objs[this]._object_id = id]
    ELSE IF this > 0 THEN [w EXCEPT !.objs[this].d._object_id = id]
    ELSE [w EXCEPT !.recs[RecOf(this)]._object_id = id]

\* whether the instance this of type T exists
isAlive(w, T, this) ==
    IF T = "A" \/ this > 0 THEN w.objs[this].alive ELSE w.recs[RecOf(this)].alive

\* the Record this refers to: the member d of the A objs[this], or the Record
\* recs[RecOf(this)]
recordAt(w, this) ==
    IF this > 0 THEN w.objs[this].d
    ELSE [_object_id |-> w.recs[RecOf(this)]._object_id,
          a |-> w.recs[RecOf(this)].a, b |-> w.recs[RecOf(this)].b]

assignRecord(w, this, val) ==
    IF this > 0 THEN [w EXCEPT !.objs[this].d = val]
    ELSE [w EXCEPT !.recs[RecOf(this)] =
              [alive |-> TRUE, _object_id |-> val._object_id, a |-> val.a, b |-> val.b]]

\* a _register_self that tests for the empty identifier after it has stored
\* and registered it
_register_self_checksLate(w, T, this, id) ==
    [w |-> doRegister(setObjectId(w, T, this, id), T, id, this), threw |-> id = empty]

\* [w, threw]: threw is TRUE where the code throws std::invalid_argument
_register_self(w, T, this, id) ==
    IF id = empty THEN [w |-> w, threw |-> TRUE]
    ELSE [w |-> doRegister(setObjectId(w, T, this, id), T, id, this), threw |-> FALSE]

\* a registerAs that does not unregister the identifier held so far
registerAs_keepsOldEntry(w, T, this, id) ==
    IF id = empty THEN [w |-> w, threw |-> TRUE]
    ELSE _register_self(w, T, this, id)

registerAs(w, T, this, id) ==
    IF id = empty THEN [w |-> w, threw |-> TRUE]
    ELSE LET w1 == IF getObjectId(w, T, this) # empty
                   THEN doUnregister(w, T, getObjectId(w, T, this))
                   ELSE w
         IN  _register_self(w1, T, this, id)

\* ~Reflectable<Derived>()
destroyReflectable(w, T, this) ==
    IF getObjectId(w, T, this) # empty
    THEN doUnregister(w, T, getObjectId(w, T, this))
    ELSE w

\* A::A(std::string id): the base, then the members a, d, nonreflectable, then
\* the body; where the base throws, no instance comes to exist in s
constructA(w, s, id) ==
    LET base == _register_self([w EXCEPT !.objs[s] = [DeadA EXCEPT !.alive = TRUE]], "A", s, id)
    IN  IF base.threw THEN [w |-> [base.w EXCEPT !.objs[s] = DeadA], threw |-> TRUE]
        ELSE LET w1 == [base.w EXCEPT !.objs[s].a = 1]
                 w2 == _register_self(w1, "Record", s, record_1).w
                 w3 == [w2 EXCEPT !.objs[s].nonreflectable = nonreflectable]
             IN  [w |-> [w3 EXCEPT !.objs[s].d.a = 2, !.objs[s].d.b = hello],
                  threw |-> FALSE]

\* ~A(): the members in reverse order (d is the only one with a destructor
\* that acts), then the base
destroyA(w, s) ==
    LET w1 == destroyReflectable(w, "Record", s)
        w2 == destroyReflectable(w1, "A", s)
    IN  [w2 EXCEPT !.objs[s] = DeadA]

\* the implicitly defined A& A::operator=(const A&): memberwise, the base's
\* _object_id included, and no registry call
copyAssignA(w, dst, src) ==
    [w EXCEPT !.objs[dst] = w.objs[src]]

\* the implicitly defined A::A(const A&): memberwise, no registry call
copyConstructA(w, dst, src) ==
    [w EXCEPT !.objs[dst] = w.objs[src]]

\* an A whose std::string members d.b and nonreflectable have been moved
\* from: the standard leaves their value unspecified, emptied tells whether
\* the library emptied them.  Reflectable declares a destructor and so has
\* no move operation: _object_id is copied.
movedFrom(val, emptied) ==
    IF emptied THEN [val EXCEPT !.d.b = empty, !.nonreflectable = empty] ELSE val

\* the implicitly defined A& A::operator=(A&&): memberwise, no registry call
moveAssignA(w, dst, src, emptied) ==
    [w EXCEPT !.objs[dst] = w.objs[src], !.objs[src] = movedFrom(w.objs[src], emptied)]

\* the implicitly defined A::A(A&&): memberwise, no registry call
moveConstructA(w, dst, src, emptied) ==
    [w EXCEPT !.objs[dst] = w.objs[src], !.objs[src] = movedFrom(w.objs[src], emptied)]

\* a Record whose std::string member b has been moved from
movedFromRecord(val, emptied) ==
    IF emptied THEN [val EXCEPT !.b = empty] ELSE val

\* the implicitly defined Record& Record::operator=(const Record&):
\* memberwise, the base's _object_id included, and no registry call
copyAssignRecord(w, dst, src) ==
    assignRecord(w, dst, recordAt(w, src))

\* the implicitly defined Record::Record(const Record&) in the free storage
\* location k: memberwise, no registry call
copyConstructRecord(w, k, src) ==
    assignRecord(w, RecRef(k), recordAt(w, src))

\* the implicitly defined Record& Record::operator=(Record&&): _object_id
\* and a are copied, b is moved; no registry call
moveAssignRecord(w, dst, src, emptied) ==
    LET val == recordAt(w, src)
    IN  assignRecord(assignRecord(w, dst, val), src, movedFromRecord(val, emptied))

\* the implicitly defined Record::Record(Record&&) in the free storage
\* location k
moveConstructRecord(w, k, src, emptied) ==
    LET val == recordAt(w, src)
    IN  assignRecord(assignRecord(w, RecRef(k), val), src, movedFromRecord(val, emptied))

\* Record::Record(std::string id), and Record::Record() for id = "default":
\* the base, then the members a and b; where the base throws, no instance
\* comes to exist in k
constructRecord(w, k, id) ==
    LET base == _register_self([w EXCEPT !.recs[k] = [DeadRec EXCEPT !.alive = TRUE]],
                               "Record", RecRef(k), id)
    IN  IF base.threw THEN [w |-> [base.w EXCEPT !.recs[k] = DeadRec], threw |-> TRUE]
        ELSE [w |-> [base.w EXCEPT !.recs[k].a = 0, !.recs[k].b = empty], threw |-> FALSE]

\* ~Record() of the Record in k
destroyRecord(w, k) ==
    [destroyReflectable(w, "Record", RecRef(k)) EXCEPT !.recs[k] = DeadRec]

(***************************************************************************)
(* TypeTraits<Record>.                                                     *)
(***************************************************************************)
\* TypeTraits<Record>::toString
Record_toString(val) == int_toString(val.a) \o <<",">> \o val.b

\* TypeTraits<Record>::fromString, the value part: [ok, val], ok FALSE where
\* lexical_cast<int> throws.  The value returned is a copy of the local
\* Record r("default"), so it carries the identifier "default".
Record_fromString(str) ==
    LET pos == find(str, ",")
        r   == [_object_id |-> default, a |-> 0, b |-> empty]
    IN  IF pos # npos
        THEN LET n == lexical_cast_int(substr_before(str, pos))
             IN  IF n.ok
                 THEN [ok |-> TRUE, val |-> [r EXCEPT !.a = n.val, !.b = substr_after(str, pos)]]
                 ELSE [ok |-> FALSE, val |-> r]
        ELSE [ok |-> TRUE, val |-> r]

\* TypeTraits<Record>::fromString with its effect on the registry: [w, ok,
\* val].  The local Record r("default") registers itself, and unregisters
\* "default" when it is destroyed, after the return or while the exception
\* of lexical_cast unwinds.
Record_fromString_call(w, str) ==
    LET r == Record_fromString(str)
    IN  [w |-> doUnregister(doRegister(w, "Record", default, local_r), "Record", default),
         ok |-> r.ok, val |-> r.val]

(***************************************************************************)
(* TypeTraits<A>.                                                          *)
(***************************************************************************)
\* TypeTraits<A>::toString
A_toString(val) == int_toString(val.a) \o <<"|">> \o Record_toString(val.d)

\* ~A() of an A that is in no storage location of the client (the local a of
\* fromString, the value it returns): d, then the base
destroyLocalA(w, val) ==
    LET w1 == IF val.d._object_id # empty
              THEN doUnregister(w, "Record", val.d._object_id)
              ELSE w
    IN  IF val._object_id # empty THEN doUnregister(w1, "A", val._object_id) ELSE w1

\* TypeTraits<A>::fromString: [w, ok, val].  The local A a("default")
\* registers itself and its d("record_1"); where lexical_cast<int> throws
\* (ok FALSE) a is destroyed while the exception unwinds; otherwise val is
\* the A returned, which is still alive in world w.
A_fromString(w, str) ==
    LET w1  == doRegister(doRegister(w, "A", default, local_a), "Record", record_1, local_a)
        a0  == [alive |-> TRUE, _object_id |-> default, a |-> 1,
                d |-> [_object_id |-> record_1, a |-> 2, b |-> hello],
                nonreflectable |-> nonreflectable]
        pos == find(str, "|")
    IN  IF pos = npos THEN [w |-> w1, ok |-> TRUE, val |-> a0]
        ELSE
        LET n == lexical_cast_int(substr_before(str, pos))
        IN  IF ~n.ok THEN [w |-> destroyLocalA(w1, a0), ok |-> FALSE, val |-> a0]
            ELSE
            LET a1 == [a0 EXCEPT !.a = n.val]
                w2 == doRegister(w1, "Record", default, local_r)
                r  == Record_fromString(substr_after(str, pos))
                w3 == doUnregister(w2, "Record", default)
            IN  IF r.ok THEN [w |-> w3, ok |-> TRUE, val |-> [a1 EXCEPT !.d = r.val]]
                ELSE [w |-> destroyLocalA(w3, a1), ok |-> FALSE, val |-> a1]

(***************************************************************************)
(* MemberInfo<T>: member is the pair (this, path): this is an A (a storage *)
(* location s) or a Record that is not the member of an A (RecRef(k)), and *)
(* path the field names that lead from it to the member; T is the member's *)
(* type.  The empty path is the instance itself.                           *)
(***************************************************************************)
fieldValue(w, s, path) ==
    IF s < 0 THEN
        (IF Len(path) = 0 THEN recordAt(w, s)
         ELSE IF path[1] = name_a THEN w.recs[RecOf(s)].a
         ELSE w.recs[RecOf(s)].b)
    ELSE IF Len(path) = 0 THEN w.objs[s]
    ELSE IF Len(path) = 1 THEN
        (IF path[1] = name_a THEN w.objs[s].a
         ELSE IF path[1] = name_d THEN w.objs[s].d
         ELSE w.objs[s].nonreflectable)
    ELSE
        (IF path[2] = name_a THEN w.objs[s].d.a ELSE w.objs[s].d.b)

assignField(w, s, path, v) ==
    IF s < 0 THEN
        (IF Len(path) = 0 THEN assignRecord(w, s, v)
         ELSE IF path[1] = name_a THEN [w EXCEPT !.recs[RecOf(s)].a = v]
         ELSE [w EXCEPT !.recs[RecOf(s)].b = v])
    ELSE IF Len(path) = 0 THEN [w EXCEPT !.objs[s] = v]
    ELSE IF Len(path) = 1 THEN
        (IF path[1] = name_a THEN [w EXCEPT !.objs[s].a = v]
         ELSE IF path[1] = name_d THEN [w EXCEPT !.objs[s].d = v]
         ELSE [w EXCEPT !.objs[s].nonreflectable = v])
    ELSE
        (IF path[2] = name_a THEN [w EXCEPT !.objs[s].d.a = v] ELSE [w EXCEPT !.objs[s].d.b = v])

\* MemberInfo<T>::getValue
getValue(w, T, s, path) ==
    LET v == fieldValue(w, s, path)
    IN  IF T = "int" THEN int_toString(v)
        ELSE IF T = "string" THEN v
        ELSE IF T = "Record" THEN Record_toString(v)
        ELSE A_toString(v)

\* MemberInfo<T>::setValue: [w, ok].  For T = Record the local r of fromString
\* registers itself as "default" and unregisters "default" when it is destroyed
\* (after the return, or while the exception of lexical_cast unwinds).  For
\* T = A the value returned by fromString is destroyed after the assignment.
setValue(w, T, s, path, value) ==
    IF T = "int" THEN
        LET n == lexical_cast_int(value)
        IN  IF n.ok THEN [w |-> assignField(w, s, path, n.val), ok |-> TRUE]
            ELSE [w |-> w, ok |-> FALSE]
    ELSE IF T = "string" THEN
        [w |-> assignField(w, s, path, value), ok |-> TRUE]
    ELSE IF T = "Record" THEN
        LET w1 == doRegister(w, "Record", default, local_r)
            r  == Record_fromString(value)
        IN  IF r.ok
            THEN [w |-> doUnregister(assignField(w1, s, path, r.val), "Record", default),
                  ok |-> TRUE]
            ELSE [w |-> doUnregister(w1, "Record", default), ok |-> FALSE]
    ELSE
        LET r == A_fromString(w, value)
        IN  IF r.ok
            THEN [w |-> destroyLocalA(assignField(r.w, s, path, r.val), r.val), ok |-> TRUE]
            ELSE [w |-> r.w, ok |-> FALSE]

(***************************************************************************)
(* The reflection data.  REFLECT_COUNTER is __COUNTER__, which the         *)
(* preprocessor replaces where it stands: by 0 in _reflect_members (its    *)
(* first use), then by 1, 2 in Record and 3, 4 in A, which so declare the  *)
(* static members _reflect_member_1 .. _reflect_member_4.                  *)
(***************************************************************************)
\* constexpr size_t count = REFLECT_COUNTER;
count == 0

\* the static members _reflect_member_<k> each type declares
reflect_member(T) ==
    IF T = "Record"
    THEN (1 :> [name |-> name_a, type |-> "int"]) @@ (2 :> [name |-> name_b, type |-> "string"])
    ELSE (3 :> [name |-> name_a, type |-> "int"]) @@ (4 :> [name |-> name_d, type |-> "Record"])

RECURSIVE _get_reflection_data(_, _)
_get_reflection_data(T, N) ==
    IF N > 0
    THEN <<reflect_member(T)[N - 1]>> \o _get_reflection_data(T, N - 1)
    ELSE <<>>

\* a tuple that holds every member the type declares
_reflect_members_declared(T) ==
    IF T = "Record"
    THEN <<reflect_member(T)[2], reflect_member(T)[1]>>
    ELSE <<reflect_member(T)[4], reflect_member(T)[3]>>

_reflect_members(T) == _get_reflection_data(T, count)

\* a map with an entry for every member the type declares
reflect_declared(T) ==
    LET declared == reflect_member(T)
    IN  [n \in {declared[k].name : k \in DOMAIN declared} |->
            declared[CHOOSE k \in DOMAIN declared : declared[k].name = n].type]

\* Reflector<T>::reflect: member name -> type of the MemberInfo bound to that
\* member of the object
reflect(T) ==
    LET members == _reflect_members(T)
    IN  [n \in {members[i].name : i \in 1..Len(members)} |->
            members[CHOOSE i \in 1..Len(members) : members[i].name = n].type]

(***************************************************************************)
(* ReflectionParser.                                                       *)
(***************************************************************************)
\* the tokens between the spaces of cmd, the empty ones skipped
RECURSIVE tokenize(_)
tokenize(cmd) ==
    LET pos == find(cmd, " ")
    IN  IF pos = npos
        THEN (IF cmd = empty THEN <<>> ELSE <<cmd>>)
        ELSE LET token == substr_before(cmd, pos)
                 rest  == tokenize(substr_after(cmd, pos))
             IN  IF token = empty THEN rest ELSE <<token>> \o rest

\* The outcome of a call of parseAndExecute is [w, ret, threw]: the world it
\* leaves, the string it returns, and whether an exception leaves it instead.

\* a malformed command answered with a usage text in place of ""
malformedCommand_returnsUsage(w) ==
    [w |-> w, ret |-> <<"u","s","a","g","e">>, threw |-> FALSE]

\* return "" for a command with too few tokens, a set without '=', a path
\* without '.'
malformedCommand(w) == [w |-> w, ret |-> empty, threw |-> FALSE]

\* an object-not-found branch that returns the diagnostic it logs
objectNotFound_returnsMessage(w, objectId) ==
    [w |-> w, ret |-> <<"O","b","j","e","c","t"," ","n","o","t"," ","f","o","u","n","d">>,
     threw |-> FALSE]

\* a lookup through objects[objectId], which inserts a null entry for an
\* identifier the map does not hold
objectNotFound_insertsEntry(w, objectId) ==
    [w |-> [w EXCEPT !.objects["A"] = registerObject(@, objectId, nullptr)],
     ret |-> empty, threw |-> FALSE]

\* if (!obj): the diagnostic goes to std::cerr, the result is ""
objectNotFound(w, objectId) == [w |-> w, ret |-> empty, threw |-> FALSE]

\* a member-not-found branch that falls back on the plain data member
memberNotFound_readsPlainMember(w, obj, memberPath) ==
    [w |-> w,
     ret |-> IF memberPath = nonreflectable THEN w.objs[obj].nonreflectable ELSE empty,
     threw |-> FALSE]

\* a member-not-found branch that throws in place of returning ""
memberNotFound_throws(w, obj, memberPath) == [w |-> w, ret |-> empty, threw |-> TRUE]

\* if (it == members.end()): the diagnostic goes to std::cerr, the result is ""
memberNotFound(w, obj, memberPath) == [w |-> w, ret |-> empty, threw |-> FALSE]

\* the return "" that ends the nested-path branch when the base member is not
\* in the reflected map or is not "d"
notNavigable(w) == [w |-> w, ret |-> empty, threw |-> FALSE]

\* a re-dispatch that keeps the whole member path
descend_keepsBase(operation, objectId, baseMember, subPath, value) ==
    operation \o <<" ">> \o objectId \o <<".">> \o baseMember \o <<".">> \o subPath
    \o (IF operation = kw_set THEN <<"=">> \o value ELSE empty)

\* the command the nested-path branch re-dispatches: the path without its
\* base member
descend(operation, objectId, baseMember, subPath, value) ==
    operation \o <<" ">> \o objectId \o <<".">> \o subPath
    \o (IF operation = kw_set THEN <<"=">> \o value ELSE empty)

\* the leaf step of parseAndExecute: the member looked up in the reflected
\* map of the A in storage location obj, and the operation applied to it
applyOperation(w, obj, operation, memberPath, value) ==
    LET members == reflect("A")
    IN  IF memberPath \notin DOMAIN members
        THEN memberNotFound(w, obj, memberPath)
        ELSE IF operation = kw_set
        THEN LET r == setValue(w, members[memberPath], obj, <<memberPath>>, value)
             IN  [w |-> r.w, ret |-> IF r.ok THEN value ELSE empty, threw |-> FALSE]
        ELSE IF operation = kw_get
        THEN [w |-> w, ret |-> getValue(w, members[memberPath], obj, <<memberPath>>),
              threw |-> FALSE]
        ELSE [w |-> w, ret |-> empty, threw |-> FALSE]

\* ReflectionParser::parseAndExecute: [w, ret, threw]
RECURSIVE parseAndExecute(_, _)
parseAndExecute(w, cmd) ==
    LET tokens == tokenize(cmd)
        fail   == malformedCommand(w)
    IN  IF tokens = <<>> THEN fail
        ELSE IF Len(tokens) < 2 THEN fail
        ELSE
        LET operation == tokens[1]
            eqPos     == find(tokens[2], "=")
            value     == IF operation = kw_set THEN substr_after(tokens[2], eqPos) ELSE empty
            pathSpec  == IF operation = kw_set THEN substr_before(tokens[2], eqPos) ELSE tokens[2]
        IN  IF operation = kw_set /\ eqPos = npos THEN fail
            ELSE
            LET firstDot   == find(pathSpec, ".")
                objectId   == substr_before(pathSpec, firstDot)
                memberPath == substr_after(pathSpec, firstDot)
                obj        == getObject(w.objects["A"], objectId)
                pos        == find(memberPath, ".")
                baseMember == substr_before(memberPath, pos)
                subPath    == substr_after(memberPath, pos)
            IN  IF firstDot = npos THEN fail
                ELSE IF obj = nullptr THEN objectNotFound(w, objectId)
                ELSE IF pos # npos
                THEN (IF baseMember \in DOMAIN reflect("A") /\ baseMember = name_d
                      THEN parseAndExecute(w,
                               descend(operation, objectId, baseMember, subPath, value))
                      ELSE notNavigable(w))
                ELSE applyOperation(w, obj, operation, memberPath, value)

(***************************************************************************)
(* Inputs.                                                                 *)
(***************************************************************************)
obj2 == <<"o","b","j","2">>
invalid == <<"i","n","v","a","l","i","d">>

\* identifiers given to A instances; the empty one is rejected
Ids == {test_object, obj2}

\* the type of the member a MemberInfo is bound to: the member at path of an
\* A (this a storage location s) or of a Record (this = RecRef(k))
MemberType(this, path) ==
    IF this < 0 THEN
        (IF path = <<>> THEN "Record" ELSE IF path = <<name_a>> THEN "int" ELSE "string")
    ELSE IF path = <<>> THEN "A"
    ELSE IF path = <<name_a>> \/ path = <<name_d, name_a>> THEN "int"
    ELSE IF path = <<name_d>> THEN "Record"
    ELSE "string"

txt_42 == <<"4","2">>
txt_666 == <<"6","6","6">>
txt_007 == <<"0","0","7">>
txt_abc == <<"a","b","c">>
txt_rec == <<"7",",","x">>
txt_2hello == <<"2",",","h","e","l","l","o">>
txt_badrec == <<"x",",","7">>
txt_5rec == <<"5","|","7",",","x">>
txt_xrec == <<"x","|","7",",","x">>
txt_5badrec == <<"5","|","x",",","7">>
txt_zz == <<"z","z">>

\* texts given to TypeTraits<A>::fromString
CodecTexts == {empty, txt_5rec, txt_xrec, txt_5badrec}

(***************************************************************************)
(* Commands given to parseAndExecute.                                      *)
(***************************************************************************)
dot(x, y) == x \o <<".">> \o y

GetCmd(path) == kw_get \o <<" ">> \o path

SetCmd(path, value) == kw_set \o <<" ">> \o path \o <<"=">> \o value

\* identifiers used as the root of a path
CmdIds == Ids \cup {invalid_object}

\* member paths read by get commands
GetPaths ==
    {name_a, name_d, dot(name_d, name_a), dot(name_d, name_b), nonreflectable,
     dot(name_a, <<"x">>), dot(name_d, dot(name_d, name_a)), dot(invalid, name_a),
     invalid}

\* member paths and values written by set commands
SetPairs ==
    {<<name_a, txt_42>>, <<name_a, txt_abc>>, <<name_a, txt_007>>, <<name_a, empty>>,
     <<dot(name_d, name_a), txt_666>>, <<dot(name_d, name_a), txt_abc>>,
     <<dot(name_d, name_b), hello_world>>,
     <<name_d, txt_rec>>, <<name_d, txt_badrec>>,
     <<nonreflectable, txt_42>>, <<invalid, txt_42>>, <<dot(name_a, <<"x">>), txt_42>>}

\* commands that are not of the form "get path" or "set path=value"
OtherCommands ==
    {empty,
     kw_get,
     kw_set \o <<" ">> \o dot(test_object, name_a),
     kw_get \o <<" ">> \o test_object,
     kw_set \o <<" ">> \o test_object \o <<"=">> \o txt_42,
     invalid \o <<" ">> \o dot(test_object, name_a),
     invalid \o <<" ">> \o dot(test_object, dot(name_d, name_a)),
     kw_set \o <<" ", " ">> \o dot(test_object, name_a) \o <<"=">> \o txt_42,
     kw_get \o <<" ">> \o dot(test_object, name_a) \o <<"=">> \o txt_42}

Commands ==
    {GetCmd(dot(id, m)) : id \in CmdIds, m \in GetPaths}
    \cup {SetCmd(dot(id, p[1]), p[2]) : id \in CmdIds, p \in SetPairs}
    \cup OtherCommands

(***************************************************************************)
(* State.                                                                  *)
(*   lastCall   the call the client made last: the operation, the storage  *)
(*              location and type of the instance it was made on, its      *)
(*              argument (the identifier, the command), the identifier the *)
(*              instance held before it was renamed or destroyed, the      *)
(*              result of parseAndExecute or setValue, and whether the     *)
(*              call threw                                                 *)
(***************************************************************************)
\* how a bool returned by a call is recorded
bool_text(b) == IF b THEN <<"t","r","u","e">> ELSE <<"f","a","l","s","e">>

World == [objs |-> objs, recs |-> recs, objects |-> objects, lastEvent |-> lastEvent]

Call(op, obj, type, arg, old, ret, threw) ==
    [op |-> op, obj |-> obj, type |-> type, arg |-> arg, old |-> old, ret |-> ret,
     threw |-> threw]

Commit(w, call) ==
    /\ objs' = w.objs
    /\ recs' = w.recs
    /\ objects' = w.objects
    /\ lastEvent' = w.lastEvent
    /\ lastCall' = call

Init ==
    /\ objs = [s \in AllSlots |-> DeadA]
    /\ recs = [k \in RecSlots |-> DeadRec]
    /\ objects = [A |-> <<>>, Record |-> <<>>]
    /\ lastEvent = [A |-> {}, Record |-> {}]
    /\ lastCall = Call("none", 0, "", empty, empty, empty, FALSE)

(***************************************************************************)
(* Actions: the calls a client of the library makes.                       *)
(***************************************************************************)
\* A x(id) in the free storage location s
ConstructA(s, id) ==
    /\ ~objs[s].alive
    /\ LET r == constructA(World, s, id)
       IN  Commit(r.w, Call("construct", s, "A", id, empty, empty, r.threw))

\* the A in s goes out of scope
DestroyA(s) ==
    /\ objs[s].alive
    /\ Commit(destroyA(World, s), Call("destroy", s, "A", empty, objs[s]._object_id, empty, FALSE))

\* x.registerAs(id) for T = A; for T = Record x.d.registerAs(id), or
\* r.registerAs(id) where s = RecRef(k)
RegisterAs(T, s, id) ==
    /\ isAlive(World, T, s)
    /\ LET r == registerAs(World, T, s, id)
       IN  Commit(r.w, Call("registerAs", s, T, id, getObjectId(World, T, s), empty, r.threw))

\* x = y
CopyAssignA(dst, src) ==
    /\ objs[dst].alive /\ objs[src].alive
    /\ Commit(copyAssignA(World, dst, src), Call("copyAssign", dst, "A", empty, empty, empty, FALSE))

\* A x(y) in the free storage location dst
CopyConstructA(dst, src) ==
    /\ ~objs[dst].alive /\ objs[src].alive
    /\ Commit(copyConstructA(World, dst, src),
              Call("copyConstruct", dst, "A", empty, empty, empty, FALSE))

\* x = std::move(y)
MoveAssignA(dst, src, emptied) ==
    /\ objs[dst].alive /\ objs[src].alive
    /\ Commit(moveAssignA(World, dst, src, emptied),
              Call("moveAssign", dst, "A", empty, empty, empty, FALSE))

\* A x(std::move(y)) in the free storage location dst
MoveConstructA(dst, src, emptied) ==
    /\ ~objs[dst].alive /\ objs[src].alive
    /\ Commit(moveConstructA(World, dst, src, emptied),
              Call("moveConstruct", dst, "A", empty, empty, empty, FALSE))

\* p = q for Records p and q, each the member d of an A or a Record of its own
CopyAssignRecord(dst, src) ==
    /\ isAlive(World, "Record", dst) /\ isAlive(World, "Record", src)
    /\ Commit(copyAssignRecord(World, dst, src),
              Call("copyAssignRecord", dst, "Record", empty, empty, empty, FALSE))

\* Record r(q) in the free storage location k
CopyConstructRecord(k, src) ==
    /\ ~recs[k].alive /\ isAlive(World, "Record", src)
    /\ Commit(copyConstructRecord(World, k, src),
              Call("copyConstructRecord", RecRef(k), "Record", empty, empty, empty, FALSE))

\* p = std::move(q)
MoveAssignRecord(dst, src, emptied) ==
    /\ isAlive(World, "Record", dst) /\ isAlive(World, "Record", src)
    /\ Commit(moveAssignRecord(World, dst, src, emptied),
              Call("moveAssignRecord", dst, "Record", empty, empty, empty, FALSE))

\* Record r(std::move(q)) in the free storage location k
MoveConstructRecord(k, src, emptied) ==
    /\ ~recs[k].alive /\ isAlive(World, "Record", src)
    /\ Commit(moveConstructRecord(World, k, src, emptied),
              Call("moveConstructRecord", RecRef(k), "Record", empty, empty, empty, FALSE))

\* Record r(id) in the free storage location k; Record r for id = "default"
ConstructRecord(k, id) ==
    /\ ~recs[k].alive
    /\ LET r == constructRecord(World, k, id)
       IN  Commit(r.w, Call("constructRecord", RecRef(k), "Record", id, empty, empty, r.threw))

\* the Record in k goes out of scope
DestroyRecord(k) ==
    /\ recs[k].alive
    /\ Commit(destroyRecord(World, k),
              Call("destroyRecord", RecRef(k), "Record", empty, recs[k]._object_id, empty, FALSE))

\* ObjectRegistry<T>::registerObject(id, obj), called by the client
RegisterObject(T, id, obj) ==
    /\ T \in {"A", "Record"}
    /\ Commit(doRegister(World, T, id, obj),
              Call("registerObject", obj, T, id, empty, empty, FALSE))

\* ObjectRegistry<T>::unregisterObject(id), called by the client
UnregisterObject(T, id) ==
    /\ T \in {"A", "Record"}
    /\ Commit(doUnregister(World, T, id),
              Call("unregisterObject", 0, T, id, empty, empty, FALSE))

\* TypeTraits<A>::fromString(str), called by the client, the value returned
\* destroyed at the end of the statement
FromStringA(str) ==
    /\ str \in Seq(STRING)
    /\ LET r == A_fromString(World, str)
       IN  Commit(IF r.ok THEN destroyLocalA(r.w, r.val) ELSE r.w,
                  Call("fromString", local_a, "A", str, empty, empty, ~r.ok))

\* TypeTraits<Record>::fromString(str), called by the client; the value
\* returned is the local r, or a copy of it whose destructor unregisters
\* "default" once more, which changes nothing
FromStringRecord(str) ==
    /\ str \in Seq(STRING)
    /\ LET r == Record_fromString_call(World, str)
       IN  Commit(r.w,
                  Call("fromString", local_r, "Record", str, empty, empty, ~r.ok))

\* MemberInfo<T>(&x.path).setValue(value), x an A (s a storage location) or
\* a Record of its own (s = RecRef(k)); the call returns a bool and throws
\* nothing
SetValue(s, path, value) ==
    /\ isAlive(World, IF s > 0 THEN "A" ELSE "Record", s)
    /\ LET T == MemberType(s, path)
           r == setValue(World, T, s, path, value)
       IN  Commit(r.w, Call("setValue", s, T, value, empty, bool_text(r.ok), FALSE))

\* ReflectionParser::parseAndExecute(cmd)
ParseAndExecute(cmd) ==
    /\ cmd \in Seq(STRING)
    /\ LET r == parseAndExecute(World, cmd)
       IN  Commit(r.w, Call("parseAndExecute", 0, "", cmd, empty, r.ret, r.threw))

(***************************************************************************)
(* Spec: the life cycle of the instances (construction, renaming,          *)
(* destruction, copies, decoded values assigned to the member d).          *)
(***************************************************************************)
Next ==
    \/ \E s \in Slots, id \in Ids \cup {empty} : ConstructA(s, id)
    \/ \E s \in Slots : DestroyA(s)
    \/ \E s \in Slots, id \in Ids \cup {empty} : RegisterAs("A", s, id)
    \/ \E s \in Slots, id \in {record_1, empty} : RegisterAs("Record", s, id)
    \/ \E dst \in Slots, src \in Slots : CopyAssignA(dst, src)
    \/ \E dst \in Slots, src \in Slots : CopyConstructA(dst, src)
    \/ \E s \in Slots, value \in {txt_2hello, txt_badrec} : SetValue(s, <<name_d>>, value)

Spec == Init /\ [][Next]_vars

(***************************************************************************)
(* SpecMove: copies and moves of A instances and of Records.               *)
(***************************************************************************)
\* the Records of SpecMove: the member d of each A, and each Record of its own
RecordRefs == Slots \cup {RecRef(k) : k \in RecSlots}

NextMove ==
    \/ \E s \in Slots, id \in Ids : ConstructA(s, id)
    \/ \E s \in Slots : DestroyA(s)
    \/ \E dst \in Slots, src \in Slots : CopyAssignA(dst, src)
    \/ \E dst \in Slots, src \in Slots, emptied \in BOOLEAN : MoveAssignA(dst, src, emptied)
    \/ \E dst \in Slots, src \in Slots, emptied \in BOOLEAN : MoveConstructA(dst, src, emptied)
    \/ \E dst \in RecordRefs, src \in RecordRefs : CopyAssignRecord(dst, src)
    \/ \E k \in RecSlots, src \in RecordRefs : CopyConstructRecord(k, src)
    \/ \E dst \in RecordRefs, src \in RecordRefs, emptied \in BOOLEAN :
           MoveAssignRecord(dst, src, emptied)
    \/ \E k \in RecSlots, src \in RecordRefs, emptied \in BOOLEAN :
           MoveConstructRecord(k, src, emptied)
    \/ \E k \in RecSlots : DestroyRecord(k)

SpecMove == Init /\ [][NextMove]_vars

(***************************************************************************)
(* SpecInfo: MemberInfo bound to the members of an A, to a Record that is  *)
(* not the member of an A, and to the members of such a Record.            *)
(***************************************************************************)
NextInfo ==
    \/ \E s \in Slots : ConstructA(s, test_object)
    \/ \E s \in Slots : DestroyA(s)
    \/ \E k \in RecSlots, id \in {record_1, default} : ConstructRecord(k, id)
    \/ \E k \in RecSlots : DestroyRecord(k)
    \/ \E s \in Slots, value \in {txt_2hello, txt_badrec} : SetValue(s, <<name_d>>, value)
    \/ \E s \in Slots : SetValue(s, <<nonreflectable>>, txt_zz)
    \/ \E k \in RecSlots, value \in {txt_42, txt_abc} : SetValue(RecRef(k), <<name_a>>, value)
    \/ \E k \in RecSlots : SetValue(RecRef(k), <<name_b>>, txt_zz)
    \/ \E k \in RecSlots, value \in {txt_rec, txt_badrec} : SetValue(RecRef(k), <<>>, value)

SpecInfo == Init /\ [][NextInfo]_vars

(***************************************************************************)
(* SpecLib: the registry and the codecs of A and Record called by the      *)
(* client, and Records that are not the member of an A, constructed,       *)
(* renamed and destroyed.                                                  *)
(***************************************************************************)
\* what the client passes as obj to registerObject
ObjRefs(T) ==
    {nullptr} \cup CmdSlots \cup (IF T = "Record" THEN {RecRef(k) : k \in RecSlots} ELSE {})

NextLib ==
    \/ \E s \in CmdSlots, id \in {test_object, empty} : ConstructA(s, id)
    \/ \E s \in CmdSlots : DestroyA(s)
    \/ \E k \in RecSlots, id \in {record_1, default, empty} : ConstructRecord(k, id)
    \/ \E k \in RecSlots : DestroyRecord(k)
    \/ \E obj \in ObjRefs("A") : RegisterObject("A", test_object, obj)
    \/ \E obj \in ObjRefs("Record") : RegisterObject("Record", record_1, obj)
    \/ UnregisterObject("A", test_object)
    \/ UnregisterObject("Record", record_1)
    \/ \E str \in CodecTexts : FromStringA(str)
    \/ \E s \in CmdSlots, value \in CodecTexts : SetValue(s, <<>>, value)
    \/ \E k \in RecSlots : RegisterAs("Record", RecRef(k), obj2)
    \/ \E s \in CmdSlots : RegisterAs("A", s, empty)
    \/ \E s \in CmdSlots \cup {RecRef(k) : k \in RecSlots} : RegisterAs("Record", s, empty)
    \/ \E str \in {txt_rec, txt_badrec} : FromStringRecord(str)

SpecLib == Init /\ [][NextLib]_vars

(***************************************************************************)
(* SpecCmd: commands given to parseAndExecute while instances are          *)
(* constructed, renamed, written through MemberInfo and destroyed.         *)
(***************************************************************************)
NextCmd ==
    \/ \E s \in CmdSlots, id \in Ids \cup {empty} : ConstructA(s, id)
    \/ \E s \in CmdSlots : DestroyA(s)
    \/ \E s \in CmdSlots, id \in Ids : RegisterAs("A", s, id)
    \/ \E s \in CmdSlots, value \in {txt_42, txt_abc} : SetValue(s, <<name_a>>, value)
    \/ \E s \in CmdSlots, value \in {txt_rec, txt_badrec} : SetValue(s, <<name_d>>, value)
    \/ \E cmd \in Commands : ParseAndExecute(cmd)

SpecCmd == Init /\ [][NextCmd]_vars

(***************************************************************************)
(* Properties.                                                             *)
(***************************************************************************)
\* the call is parseAndExecute(cmd)
IsCommand(call, cmd) == call.op = "parseAndExecute" /\ call.arg = cmd

\* the live A that ObjectRegistry<A> maps id to in world w, if any
Registered(w, id) ==
    /\ getObject(w.objects["A"], id) # nullptr
    /\ w.objs[getObject(w.objects["A"], id)].alive

Root(w, id) == w.objs[getObject(w.objects["A"], id)]

\* the texts the commands write, and those among them that fromText accepts
\* as an int
ValueTexts == {p[2] : p \in SetPairs}

IntTexts == {t \in ValueTexts : lexical_cast_int(t).ok}

\* C1: for every object registered under id, the command "get id.a" returns
\* the text of the current value of its leaf field a
C1_GetReturnsFieldText ==
    \A id \in Ids :
        (IsCommand(lastCall, GetCmd(dot(id, name_a))) /\ Registered(World, id))
            => lastCall.ret = int_toString(Root(World, id).a)

\* C2: for every registered id and every text t that is accepted as an int,
\* "set id.a=t" returns t, and a "get id.a" that follows it at once returns t
C2_SetGetRoundTrip ==
    [][\A id \in Ids, t \in IntTexts :
        /\ (IsCommand(lastCall', SetCmd(dot(id, name_a), t)) /\ Registered(World, id))
              => lastCall'.ret = t
        /\ (/\ IsCommand(lastCall, SetCmd(dot(id, name_a), t))
            /\ IsCommand(lastCall', GetCmd(dot(id, name_a)))
            /\ Registered(World, id))
              => lastCall'.ret = t]_vars

\* C3: for every registered id, "get id.d.a" and "get id.d.b" return the text
\* of the fields a and b stored inside the nested object d
C3_NestedGetComposes ==
    \A id \in Ids :
        Registered(World, id) =>
            /\ IsCommand(lastCall, GetCmd(dot(id, dot(name_d, name_a))))
                  => lastCall.ret = int_toString(Root(World, id).d.a)
            /\ IsCommand(lastCall, GetCmd(dot(id, dot(name_d, name_b))))
                  => lastCall.ret = Root(World, id).d.b

\* the nested leaf fields and the valid texts the commands write to them
NestedWrites == {<<name_a, txt_666>>, <<name_b, hello_world>>}

\* C4: for every registered id, nested leaf field g of d and valid text t,
\* "set id.d.g=t" returns t, and a "get id.d.g" that follows it returns t
C4_NestedSetGetRoundTrip ==
    [][\A id \in Ids, p \in NestedWrites :
        /\ (/\ IsCommand(lastCall', SetCmd(dot(id, dot(name_d, p[1])), p[2]))
            /\ Registered(World, id))
              => lastCall'.ret = p[2]
        /\ (/\ IsCommand(lastCall, SetCmd(dot(id, dot(name_d, p[1])), p[2]))
            /\ IsCommand(lastCall', GetCmd(dot(id, dot(name_d, p[1]))))
            /\ Registered(World, id))
              => lastCall'.ret = p[2]]_vars

\* C5: for every registered id and every text t that is rejected as an int,
\* "set id.a=t" returns the empty string and leaves a unchanged, and a
\* "get id.a" that follows it returns the text of the value a had before
C5_FailedSetIsNoOp ==
    [][\A id \in Ids, t \in ValueTexts \ IntTexts :
        /\ (IsCommand(lastCall', SetCmd(dot(id, name_a), t)) /\ Registered(World, id))
              => /\ lastCall'.ret = empty
                 /\ objs' = objs
        /\ (/\ IsCommand(lastCall, SetCmd(dot(id, name_a), t))
            /\ IsCommand(lastCall', GetCmd(dot(id, name_a)))
            /\ Registered(World, id))
              => lastCall'.ret = int_toString(Root(World, id).a)]_vars

\* the keys under which a registry maps to the instance in storage location s
KeysOf(m, s) == {k \in DOMAIN m : m[k] = s}

\* C6: every live instance that holds a non-empty identifier has exactly one
\* entry in the registry of its type, and that entry maps its identifier to it
C6_LifecycleInvariant ==
    /\ \A s \in AllSlots :
          objs[s].alive =>
              /\ objs[s]._object_id # empty
                    => KeysOf(objects["A"], s) = {objs[s]._object_id}
              /\ objs[s].d._object_id # empty
                    => KeysOf(objects["Record"], s) = {objs[s].d._object_id}
    /\ \A k \in RecSlots :
          (recs[k].alive /\ recs[k]._object_id # empty)
              => KeysOf(objects["Record"], RecRef(k)) = {recs[k]._object_id}

\* the reference a registry of T holds is to an instance that is alive
RefersToLive(T, ref) ==
    \/ ref \in AllSlots /\ objs[ref].alive
    \/ T = "Record" /\ \E k \in RecSlots : ref = RecRef(k) /\ recs[k].alive

\* C7: every entry of every registry refers to an instance that is alive
C7_NoDanglingEntry ==
    \A T \in {"A", "Record"} :
        \A k \in DOMAIN objects[T] : RefersToLive(T, objects[T][k])

\* the identifiers a registry has been called with, and those of the inputs
KnownIds(T) ==
    Ids \cup {record_1, default, invalid_object, empty}
    \cup DOMAIN objects[T] \cup {p[1] : p \in lastEvent[T]}

\* C8: a lookup of id returns the instance passed to the most recent
\* registerObject(id, .) that no unregisterObject(id) has followed, and
\* nullptr otherwise; once the holder of id has been destroyed the lookup of
\* id returns nullptr, and once an object has been constructed with id the
\* lookup of id returns that object
C8_LookupFollowsHistory ==
    /\ \A T \in {"A", "Record"} :
           \A id \in KnownIds(T) :
               getObject(objects[T], id) = mostRecentRegistered(lastEvent[T], id)
    /\ lastCall.op \in {"destroy", "destroyRecord"}
           => getObject(objects[lastCall.type], lastCall.old) = nullptr
    /\ (lastCall.op \in {"construct", "constructRecord", "registerObject"} /\ ~lastCall.threw)
           => getObject(objects[lastCall.type], lastCall.arg) = lastCall.obj
    /\ lastCall.op = "unregisterObject"
           => getObject(objects[lastCall.type], lastCall.arg) = nullptr

\* a Record was constructed with the identifier record_1 that the member d of
\* a live A holds, and the lookup of record_1 returns the later one
C8_Witness ==
    /\ lastCall.op = "constructRecord" /\ ~lastCall.threw /\ lastCall.arg = record_1
    /\ \E s \in AllSlots : objs[s].alive /\ objs[s].d._object_id = record_1
    /\ getObject(objects["Record"], record_1) = lastCall.obj
    /\ \E k \in RecSlots : lastCall.obj = RecRef(k) /\ recs[k].alive

\* where an instance of T can be: an A in a storage location, a Record as the
\* member d of such an A or in a storage location of its own
InstancesOf(T) ==
    AllSlots \cup (IF T = "Record" THEN {RecRef(k) : k \in RecSlots} ELSE {})

\* C9: after registerAs(newId), newId not empty, on an instance registered as
\* oldId, the lookup of newId returns the instance, getObjectId() is newId,
\* and where newId differs from oldId the lookup of oldId does not return it
C9_RenameMovesRegistration ==
    [][\A T \in {"A", "Record"} : \A s \in InstancesOf(T) :
        LET oldId == getObjectId(World, T, s)
            newId == lastCall'.arg
        IN  (/\ lastCall'.op = "registerAs" /\ lastCall'.obj = s /\ lastCall'.type = T
             /\ ~lastCall'.threw
             /\ getObject(objects[T], oldId) = s)
                => /\ newId # empty
                   /\ getObject(objects'[T], newId) = s
                   /\ getObjectId(World', T, s) = newId
                   /\ newId # oldId => getObject(objects'[T], oldId) # s]_vars

\* the A in storage location 1 was renamed from test_object to obj2
C9_Witness ==
    /\ lastCall.op = "registerAs" /\ ~lastCall.threw /\ lastCall.obj = 1
    /\ lastCall.old = test_object /\ lastCall.arg = obj2
    /\ getObject(objects["A"], obj2) = 1
    /\ getObject(objects["A"], test_object) # 1

\* C10: a construction and a registerAs with the empty identifier throw and
\* leave every instance and every registry as they were
C10_EmptyIdRejected ==
    [][(lastCall'.op \in {"construct", "constructRecord", "registerAs"}
        /\ lastCall'.arg = empty)
          => (lastCall'.threw /\ objs' = objs /\ recs' = recs /\ objects' = objects)]_vars

\* registerAs("") was called on a live, registered instance and threw
C10_Witness ==
    /\ lastCall.op = "registerAs" /\ lastCall.threw /\ lastCall.arg = empty
    /\ lastCall.type = "A"
    /\ objs[lastCall.obj].alive
    /\ getObject(objects["A"], objs[lastCall.obj]._object_id) = lastCall.obj

\* the step is a call parseAndExecute(cmd) that returns "" to its caller and
\* leaves every instance and every registry as they were
FailsWithoutEffect(cmd) ==
    IsCommand(lastCall', cmd)
       => (lastCall'.ret = empty /\ objs' = objs /\ recs' = recs /\ objects' = objects)

\* for each identifier, the get and set commands whose path starts with it
CommandsOn ==
    [id \in CmdIds |->
        {GetCmd(dot(id, m)) : m \in GetPaths}
        \cup {SetCmd(dot(id, p[1]), p[2]) : p \in SetPairs}]

\* C11: every get or set command whose root identifier ObjectRegistry<A> does
\* not map at the time of the call returns the empty string and changes no
\* instance and no registry, also when the identifier was held before by an
\* instance that was destroyed or renamed since
C11_UnknownObject ==
    [][\A id \in CmdIds :
        /\ getObject(objects["A"], id) = nullptr
              => \A cmd \in CommandsOn[id] : FailsWithoutEffect(cmd)
        /\ (/\ lastCall.op \in {"destroy", "registerAs"} /\ ~lastCall.threw
            /\ lastCall.old = id
            /\ getObject(objects["A"], id) = nullptr)
              => \A cmd \in CommandsOn[id] : FailsWithoutEffect(cmd)]_vars

\* a command on test_object returned "" while the only live A is registered as
\* obj2 and no registry maps test_object
C11_Witness ==
    /\ lastCall.op = "parseAndExecute"
    /\ lastCall.arg \in CommandsOn[test_object]
    /\ lastCall.ret = empty
    /\ getObject(objects["A"], test_object) = nullptr
    /\ \E s \in AllSlots : objs[s].alive /\ getObject(objects["A"], obj2) = s

\* member names for which A declares no field descriptor
UndeclaredMembers == {nonreflectable, invalid}

\* C12: for every registered id and every member name m without a field
\* descriptor, "get id.m" and "set id.m=v" return the empty string, and the
\* data member of that name, if there is one, is neither returned nor written
C12_UndeclaredMemberUnreachable ==
    [][\A id \in Ids, m \in UndeclaredMembers :
        Registered(World, id)
           => /\ FailsWithoutEffect(GetCmd(dot(id, m)))
              /\ \A v \in ValueTexts : FailsWithoutEffect(SetCmd(dot(id, m), v))]_vars

\* "get id.nonreflectable" returned "" on a registered A whose nonreflectable
\* is not empty
C12_Witness ==
    \E id \in Ids :
        /\ IsCommand(lastCall, GetCmd(dot(id, nonreflectable)))
        /\ Registered(World, id)
        /\ Root(World, id).nonreflectable # empty
        /\ lastCall.ret = empty

\* commands with fewer than two tokens, a set without '=', a path without
\* '.', and an operation that is neither get nor set
MalformedCommands ==
    {empty,
     kw_get,
     kw_set \o <<" ">> \o dot(test_object, name_a),
     kw_get \o <<" ">> \o test_object,
     kw_set \o <<" ">> \o test_object \o <<"=">> \o txt_42,
     invalid \o <<" ">> \o dot(test_object, name_a),
     invalid \o <<" ">> \o dot(test_object, dot(name_d, name_a))}

\* C13: every malformed command returns the empty string and leaves every
\* instance and every registry unchanged
C13_MalformedCommand ==
    [][\A cmd \in MalformedCommands : FailsWithoutEffect(cmd)]_vars

\* "set test_object.a", a set without '=', returned "" on a registered object
C13_Witness ==
    /\ IsCommand(lastCall, kw_set \o <<" ">> \o dot(test_object, name_a))
    /\ Registered(World, test_object)
    /\ lastCall.ret = empty

\* for each identifier, the set commands whose value the target's conversion
\* rejects
ConversionFailures ==
    [id \in CmdIds |->
        {SetCmd(dot(id, name_a), txt_abc), SetCmd(dot(id, dot(name_d, name_a)), txt_abc),
         SetCmd(dot(id, name_d), txt_badrec)}]

\* for each identifier, the get and set commands on an unknown member or
\* through a segment that cannot be navigated
UnknownMemberCommands ==
    [id \in CmdIds |->
        {GetCmd(dot(id, m)) : m \in {nonreflectable, invalid, dot(name_a, <<"x">>),
                                     dot(invalid, name_a), dot(name_d, dot(name_d, name_a))}}
        \cup {SetCmd(dot(id, m), txt_42) :
                 m \in {nonreflectable, invalid, dot(name_a, <<"x">>)}}]

\* the commands that fail in the world as it is: those on an identifier the
\* registry does not map, and on a mapped one those with an unknown member, a
\* segment that cannot be navigated or a rejected value, and the malformed ones
FailingCommands ==
    MalformedCommands
    \cup UNION {IF getObject(objects["A"], id) = nullptr
                THEN CommandsOn[id]
                ELSE ConversionFailures[id] \cup UnknownMemberCommands[id] : id \in CmdIds}

\* C14: in every reachable state every command returns a string and throws
\* nothing, so that the call made last returned and any command can be given
\* next, and every failing command returns the empty string
C14_NeverFailsFatally ==
    /\ lastCall.op = "parseAndExecute" => ~lastCall.threw
    /\ LET failing == FailingCommands
       IN  \A cmd \in Commands :
              LET r == parseAndExecute(World, cmd)
              IN  /\ ~r.threw
                  /\ cmd \in failing => r.ret = empty

\* "set id.a=abc", whose value is not an int, returned "" on a registered A,
\* after a command that failed too
C14_Witness ==
    \E id \in Ids :
        /\ IsCommand(lastCall, SetCmd(dot(id, name_a), txt_abc))
        /\ Registered(World, id)
        /\ ~lastCall.threw /\ lastCall.ret = empty

\* paths with a segment before the last that is a leaf field (a.x), an
\* undeclared name (invalid.a), or a name the nested type does not declare
\* (d.d.a)
NonNavigablePaths ==
    {dot(name_a, <<"x">>), dot(invalid, name_a), dot(name_d, dot(name_d, name_a))}

\* C15: for every registered id, a get through a path with a segment that
\* cannot be navigated, and a set through one, return the empty string and
\* change no field of any object
C15_NonNavigableFails ==
    [][\A id \in Ids :
        Registered(World, id)
           => /\ \A p \in NonNavigablePaths : FailsWithoutEffect(GetCmd(dot(id, p)))
              /\ FailsWithoutEffect(SetCmd(dot(id, dot(name_a, <<"x">>)), txt_42))]_vars

\* "get id.d.d.a" returned "" on a registered A
C15_Witness ==
    \E id \in Ids :
        /\ IsCommand(lastCall, GetCmd(dot(id, dot(name_d, dot(name_d, name_a)))))
        /\ Registered(World, id)
        /\ lastCall.ret = empty

\* the number of '.' separators in the text s
Dots(s) == Cardinality({i \in 1..Len(s) : s[i] = "."})

\* the member path of a command "operation id.path" or "operation id.path=v":
\* what follows the first '.' of its second token, up to the '=' of a set
MemberPathOf(cmd) ==
    LET tokens   == tokenize(cmd)
        pathSpec == IF tokens[1] = kw_set
                    THEN substr_before(tokens[2], find(tokens[2], "="))
                    ELSE tokens[2]
    IN  substr_after(pathSpec, find(pathSpec, "."))

\* member paths of one, two and three segments
ResolvedPaths == GetPaths \cup {p[1] : p \in SetPairs}

\* the command "operation id.path", with "=42" after it for a set
PathCmd(operation, id, path) ==
    IF operation = kw_set THEN SetCmd(dot(id, path), txt_42) ELSE GetCmd(dot(id, path))

\* for every operation, identifier and dotted member path, the command the
\* descent re-enters with keeps the operation and has a member path with
\* strictly fewer '.' separators
DescentShrinks ==
    \A operation \in {kw_get, kw_set}, id \in CmdIds, path \in ResolvedPaths :
        LET value == IF operation = kw_set THEN txt_42 ELSE empty
            pos   == find(path, ".")
            next  == descend(operation, id, substr_before(path, pos),
                             substr_after(path, pos), value)
        IN  /\ MemberPathOf(PathCmd(operation, id, path)) = path
            /\ pos # npos
                 => /\ Dots(MemberPathOf(next)) < Dots(path)
                    /\ Len(tokenize(next)) = 2 /\ tokenize(next)[1] = operation

\* C16: every call of parseAndExecute returns; for every command with a
\* dotted member path the command that the descent re-enters with has a
\* member path with strictly fewer '.' separators, and a command whose member
\* path has no '.' is resolved by the leaf step with no further descent
C16_DescentTerminates ==
    /\ lastCall.op = "parseAndExecute" => ~lastCall.threw
    /\ DescentShrinks
    /\ \A operation \in {kw_get, kw_set}, id \in Ids :
          \A path \in {p \in ResolvedPaths : find(p, ".") = npos} :
             LET obj == getObject(objects["A"], id)
             IN  obj # nullptr
                   => parseAndExecute(World, PathCmd(operation, id, path))
                        = applyOperation(World, obj, operation, path,
                                         IF operation = kw_set THEN txt_42 ELSE empty)

\* "set id.d.a=666", a command with a dotted member path, returned on a
\* registered A
C16_Witness ==
    \E id \in Ids :
        /\ IsCommand(lastCall, SetCmd(dot(id, dot(name_d, name_a)), txt_666))
        /\ Registered(World, id)
        /\ ~lastCall.threw

\* the identifiers the live instances hold: that of the A in each storage
\* location and that of its member d
HeldIds(w) ==
    [s \in AllSlots |->
        IF w.objs[s].alive THEN <<w.objs[s]._object_id, w.objs[s].d._object_id>> ELSE <<>>]

\* C18: no call of parseAndExecute, whatever the command and its outcome,
\* adds, removes or retargets an entry of a registry or changes the
\* identifier an instance holds
C18_CommandsKeepRegistration ==
    [][lastCall'.op = "parseAndExecute"
          => (objects' = objects /\ HeldIds(World') = HeldIds(World))]_vars

\* "set id.d=7,x", a set whose target is the Record member, was given on a
\* registered A whose d is registered as record_1
C18_Witness ==
    \E id \in Ids :
        /\ IsCommand(lastCall, SetCmd(dot(id, name_d), txt_rec))
        /\ Registered(World, id)
        /\ Root(World, id).d._object_id = record_1
        /\ getObject(objects["Record"], record_1) = getObject(objects["A"], id)

\* the commands whose operation is get
GetCommands ==
    {GetCmd(dot(id, m)) : id \in CmdIds, m \in GetPaths}
    \cup {kw_get, kw_get \o <<" ">> \o test_object,
          kw_get \o <<" ">> \o dot(test_object, name_a) \o <<"=">> \o txt_42}

\* C19: a get command changes no instance and no registry, and the same get
\* given again in the state it leaves returns the same result
C19_GetIsReadOnly ==
    [][\A cmd \in GetCommands :
        IsCommand(lastCall', cmd)
           => /\ objs' = objs /\ recs' = recs /\ objects' = objects
              /\ parseAndExecute(World', cmd).ret = lastCall'.ret
              /\ IsCommand(lastCall, cmd) => lastCall'.ret = lastCall.ret]_vars

\* "get test_object.a=42", a get whose path contains '=', was given on a
\* registered A and returns the same when given again
C19_Witness ==
    LET cmd == kw_get \o <<" ">> \o dot(test_object, name_a) \o <<"=">> \o txt_42
    IN  /\ IsCommand(lastCall, cmd)
        /\ Registered(World, test_object)
        /\ parseAndExecute(World, cmd).ret = lastCall.ret

====
